---------------------------- MODULE Spec2Model ----------------------------
(***************************************************************************)
(* A model of mcresources' utils.py: the identifier resolver, the shape    *)
(* flattener, dict_get, the dialect normalizers and del_none.              *)
(*                                                                         *)
(* Python values are tagged records.  A Python str is a TLA+ string, a     *)
(* list or tuple is a TLA+ sequence, a dict is a function from its (str)   *)
(* keys.  A raised exception is a value tagged "err" that every caller     *)
(* passes on unchanged.  The functions are pure, so the state machine      *)
(* draws one input in Init, applies one function to it, and then (as       *)
(* write() does) strips the result with del_none.  The parts a fence or    *)
(* wall table returns are normalized by blockstate_multipart_parts.        *)
(***************************************************************************)
EXTENDS Integers, Sequences, FiniteSets, TLC

VARIABLES pc, fn, input, opt, result, stripped, multipart

vars == <<pc, fn, input, opt, result, stripped, multipart>>

---------------------------------------------------------------------------
(* Python values *)

None == [t |-> "none"]
Str(s) == [t |-> "str", v |-> s]
Num(n) == [t |-> "num", v |-> n]
List(q) == [t |-> "seq", v |-> q]
Dict(f) == [t |-> "dict", v |-> f]
EmptyDict == Dict(<<>>)
Bool(b) == [t |-> "bool", v |-> b]
True == Bool(TRUE)

\* ResourceLocation = namedtuple('ResourceLocation', ('domain', 'path'))
ResourceLocation(d, p) == [t |-> "loc", domain |-> d, path |-> p]

\* raise RuntimeError('Unknown object %s at <where>' % str(obj))
Unknown(obj, where) ==
    [t |-> "err", kind |-> "RuntimeError", msg |-> "Unknown object", at |-> where, obj |-> obj]

\* any other exception: a RuntimeError with its own message, or one raised by
\* the interpreter (IndexError, TypeError, KeyError, ValueError)
Raise(kind, msg, where) ==
    [t |-> "err", kind |-> kind, msg |-> msg, at |-> where, obj |-> None]

IsErr(x) == x.t = "err"
IsStr(x) == x.t = "str"
IsDict(x) == x.t = "dict"
\* isinstance(x, Sequence): str, list, tuple (a namedtuple is a tuple)
IsSequenceType(x) == x.t \in {"str", "seq", "loc"}

\* the characters of a Python str, each a str of length one
Chars(s) == [i \in 1..Len(s) |-> Str(SubSeq(s, i, i))]

\* what `for p in x` and x[i] see of a Sequence
Items(x) ==
    IF x.t = "seq" THEN x.v
    ELSE IF x.t = "loc" THEN <<x.domain, x.path>>
    ELSE Chars(x.v)

\* the first exception raised while a list is built left to right, if any
HasErr(q) == \E i \in 1..Len(q) : IsErr(q[i])
FirstErr(q) == q[CHOOSE i \in 1..Len(q) : IsErr(q[i]) /\ \A j \in 1..(i - 1) : ~IsErr(q[j])]

is_sequence(data_in) == IsSequenceType(data_in) /\ ~IsStr(data_in)

RECURSIVE flatten_list(_)
flatten_list(container) ==
    IF container = <<>> THEN <<>>
    ELSE LET i == Head(container)
         IN  (IF is_sequence(i) THEN flatten_list(Items(i)) ELSE <<i>>)
                 \o flatten_list(Tail(container))

---------------------------------------------------------------------------
(* str methods *)

\* mutant of IndexOf: s.rindex(c), the last occurrence
IndexOf_last(s, c) ==
    IF \E i \in 1..Len(s) : SubSeq(s, i, i) = c
    THEN CHOOSE i \in 1..Len(s) :
             SubSeq(s, i, i) = c /\ \A j \in (i + 1)..Len(s) : SubSeq(s, j, j) # c
    ELSE 0

\* s.index(c) counted from 1, or 0 when c does not occur in s
IndexOf(s, c) ==
    IF \E i \in 1..Len(s) : SubSeq(s, i, i) = c
    THEN CHOOSE i \in 1..Len(s) :
             SubSeq(s, i, i) = c /\ \A j \in 1..(i - 1) : SubSeq(s, j, j) # c
    ELSE 0

\* s.split(sep) for a one-character sep
RECURSIVE Split(_, _)
Split(s, sep) ==
    LET i == IndexOf(s, sep)
    IN  IF i = 0 THEN <<s>>
        ELSE <<SubSeq(s, 1, i - 1)>> \o Split(SubSeq(s, i + 1, Len(s)), sep)

\* sep.join(parts)
RECURSIVE Join(_, _)
Join(parts, sep) ==
    IF parts = <<>> THEN ""
    ELSE IF Len(parts) = 1 THEN parts[1]
    ELSE parts[1] \o sep \o Join(Tail(parts), sep)

---------------------------------------------------------------------------
(* Identifier resolver *)

RECURSIVE str_path(_)
str_path(data_in) ==
    IF IsStr(data_in)
    THEN List([i \in 1..Len(Split(data_in.v, "/")) |-> Str(Split(data_in.v, "/")[i])])
    ELSE IF IsSequenceType(data_in)
    THEN LET parts == [i \in 1..Len(Items(data_in)) |-> str_path(Items(data_in)[i])]
         IN  IF HasErr(parts) THEN FirstErr(parts) ELSE List(flatten_list(parts))
    ELSE Unknown(data_in, "str_path")

resource_location(elements) ==
    IF Len(elements) \notin {1, 2}
    THEN Raise("RuntimeError", "Must take one or two arguments", "resource_location")
    ELSE LET domain == IF Len(elements) = 1 THEN Str("minecraft") ELSE elements[1]
             data == IF Len(elements) = 1 THEN elements[1] ELSE elements[2]
         IN  IF data.t = "loc" THEN data
             ELSE LET path == str_path(data)
                  IN  IF IsErr(path) THEN path
                      ELSE LET joined == Join([i \in 1..Len(path.v) |-> path.v[i].v], "/")
                               i == IndexOf(joined, ":")
                           IN  IF i # 0
                               THEN ResourceLocation(Str(SubSeq(joined, 1, i - 1)),
                                                     Str(SubSeq(joined, i + 1, Len(joined))))
                               ELSE ResourceLocation(domain, Str(joined))

---------------------------------------------------------------------------
(* Generic value normalizer *)

RECURSIVE loot_condition_list(_)
RECURSIVE loot_function_list(_)
RECURSIVE loot_entry_list(_)

\* map_function(x), the function object being passed by its name; "None" is
\* the map_function=None case of dict_get
apply_map(map_function, x) ==
    CASE map_function = "None" -> x
      [] map_function = "loot_condition_list" -> loot_condition_list(x)
      [] map_function = "loot_function_list" -> loot_function_list(x)
      [] map_function = "loot_entry_list" -> loot_entry_list(x)

dict_get(data_in, key, default, map_function) ==
    IF key \in DOMAIN data_in.v
    THEN apply_map(map_function, data_in.v[key])
    ELSE default

\* a dict display {k1: e1, k2: e2, ...}: the first exception among the values,
\* taken in the order the display evaluates them, else the dict
Display(fields, order) ==
    LET values == [i \in 1..Len(order) |-> fields[order[i]]]
    IN  IF HasErr(values) THEN FirstErr(values) ELSE Dict(fields)

\* d[k] = v, and d.update(e), on the functions that stand for dicts
Put(d, k, v) == [x \in DOMAIN d \cup {k} |-> IF x = k THEN v ELSE d[x]]
Update(d, e) == [x \in DOMAIN d \cup DOMAIN e |-> IF x \in DOMAIN e THEN e[x] ELSE d[x]]

---------------------------------------------------------------------------
(* Asset parts *)

\* mutant of recipe_condition: the nested calls are not strict
RECURSIVE recipe_condition_deep(_, _)
recipe_condition_deep(data_in, strict) ==
    IF data_in = None THEN None
    ELSE IF IsStr(data_in) THEN List(<<Dict([type |-> data_in])>>)
    ELSE IF IsDict(data_in) THEN List(<<data_in>>)
    ELSE IF is_sequence(data_in)
    THEN LET parts == [i \in 1..Len(Items(data_in)) |->
                          recipe_condition_deep(Items(data_in)[i], FALSE)]
         IN  IF HasErr(parts) THEN FirstErr(parts) ELSE List(flatten_list(parts))
    ELSE Unknown(data_in, "recipe_condition")

RECURSIVE recipe_condition(_, _)
recipe_condition(data_in, strict) ==
    IF data_in = None THEN None
    ELSE IF IsStr(data_in) THEN List(<<Dict([type |-> data_in])>>)
    ELSE IF IsDict(data_in) THEN List(<<data_in>>)
    ELSE IF is_sequence(data_in) /\ ~strict
    THEN LET parts == [i \in 1..Len(Items(data_in)) |-> recipe_condition(Items(data_in)[i], TRUE)]
         IN  IF HasErr(parts) THEN FirstErr(parts) ELSE List(flatten_list(parts))
    ELSE Unknown(data_in, "recipe_condition")

\* data_in[0:4] == 'tag!'
HasTagMarker(s) == Len(s) >= 4 /\ SubSeq(s, 1, 4) = "tag!"
\* data_in[4:]
AfterTagMarker(s) == SubSeq(s, 5, Len(s))

RECURSIVE item_stack(_)
item_stack(data_in) ==
    IF IsStr(data_in)
    THEN IF HasTagMarker(data_in.v)
         THEN Dict([tag |-> Str(AfterTagMarker(data_in.v))])
         ELSE Dict([item |-> data_in])
    ELSE IF IsDict(data_in) THEN data_in
    ELSE IF is_sequence(data_in)
    THEN IF Len(Items(data_in)) # 2
         THEN Raise("RuntimeError", "An item stack as a sequence must have two entries (size, item)",
                    "item_stack")
         ELSE LET rest == item_stack(Items(data_in)[2])
              IN  IF IsErr(rest) THEN rest
                  \* {'count': data_in[0], **rest}: the keys of rest are written last
                  ELSE Dict(Update([count |-> Items(data_in)[1]], rest.v))
    ELSE Unknown(data_in, "item_stack")

\* mutant of item_stack_list: a (number, item) pair is taken as one stack
item_stack_list_pair(data_in) ==
    IF \/ IsStr(data_in)
       \/ IsDict(data_in)
       \/ is_sequence(data_in) /\ Len(Items(data_in)) = 2 /\ Items(data_in)[1].t = "num"
    THEN IF IsErr(item_stack(data_in)) THEN item_stack(data_in)
         ELSE List(<<item_stack(data_in)>>)
    ELSE IF IsSequenceType(data_in)
    THEN LET parts == [i \in 1..Len(Items(data_in)) |-> item_stack(Items(data_in)[i])]
         IN  IF HasErr(parts) THEN FirstErr(parts) ELSE List(flatten_list(parts))
    ELSE Unknown(data_in, "item_stack_list")

item_stack_list(data_in) ==
    IF IsStr(data_in) \/ IsDict(data_in) THEN List(<<item_stack(data_in)>>)
    ELSE IF IsSequenceType(data_in)
    THEN LET parts == [i \in 1..Len(Items(data_in)) |-> item_stack(Items(data_in)[i])]
         IN  IF HasErr(parts) THEN FirstErr(parts) ELSE List(flatten_list(parts))
    ELSE Unknown(data_in, "item_stack_list")

\* The dict comprehension raises at the first value item_stack rejects; a dict
\* here keeps no insertion order, so "first" is one fixed choice among them.
item_stack_dict(data_in, default_char) ==
    IF IsDict(data_in)
    THEN LET stacks == [k \in DOMAIN data_in.v |-> item_stack(data_in.v[k])]
         IN  IF \E k \in DOMAIN stacks : IsErr(stacks[k])
             THEN stacks[CHOOSE k \in DOMAIN stacks : IsErr(stacks[k])]
             ELSE Dict(stacks)
    ELSE IF IsStr(data_in) THEN Dict(Put(<<>>, default_char, item_stack(data_in)))
    ELSE Unknown(data_in, "item_stack_dict")

\* the inner function part(p) of blockstate_multipart_parts
part(p) ==
    IF IsSequenceType(p) /\ Len(Items(p)) = 2
    THEN Dict([when |-> Items(p)[1], apply |-> Items(p)[2]])
    ELSE IF IsDict(p) THEN Dict([apply |-> p])
    ELSE Unknown(p, "blockstate_multipart_parts#part")

\* `for p in data_in` takes the elements of a Sequence and the keys of a dict;
\* a dict keeps no order here, so its keys are taken in one fixed order.
RECURSIVE KeyList(_)
KeyList(keys) ==
    IF keys = {} THEN <<>>
    ELSE LET k == CHOOSE x \in keys : TRUE IN <<Str(k)>> \o KeyList(keys \ {k})

blockstate_multipart_parts(data_in) ==
    IF ~(IsSequenceType(data_in) \/ IsDict(data_in))
    THEN Raise("TypeError", "object is not iterable", "blockstate_multipart_parts")
    ELSE LET elems == IF IsDict(data_in) THEN KeyList(DOMAIN data_in.v) ELSE Items(data_in)
             parts == [i \in 1..Len(elems) |-> part(elems[i])]
         IN  IF HasErr(parts) THEN FirstErr(parts) ELSE List(parts)

RECURSIVE lang_parts(_, _)

\* mutant of lang_walk: the value after a key is not skipped
RECURSIVE lang_walk_noskip(_, _, _)
lang_walk_noskip(data_in, i, entries) ==
    IF ~(i < Len(data_in)) THEN Dict(entries)
    ELSE LET p == data_in[i + 1]
         IN  IF IsStr(p)
             THEN IF ~(i + 1 < Len(data_in))
                  THEN Raise("IndexError", "index out of range", "lang_parts")
                  ELSE lang_walk_noskip(data_in, i + 1, Put(entries, p.v, data_in[i + 2]))
             ELSE IF IsSequenceType(p)
             THEN LET sub == lang_parts(p, entries)
                  IN  IF IsErr(sub) THEN sub ELSE lang_walk_noskip(data_in, i + 1, sub.v)
             ELSE IF IsDict(p) THEN lang_walk_noskip(data_in, i + 1, Update(entries, p.v))
             ELSE Unknown(p, "lang_parts")

RECURSIVE lang_walk(_, _, _)
\* the while loop of lang_parts from position i (counted from 0, as in the code)
lang_walk(data_in, i, entries) ==
    IF ~(i < Len(data_in)) THEN Dict(entries)
    ELSE LET p == data_in[i + 1]
         IN  IF IsStr(p)
             THEN IF ~(i + 1 < Len(data_in))
                  THEN Raise("IndexError", "index out of range", "lang_parts")
                  ELSE lang_walk(data_in, i + 2, Put(entries, p.v, data_in[i + 2]))
             ELSE IF IsSequenceType(p)
             THEN LET sub == lang_parts(p, entries)
                  IN  IF IsErr(sub) THEN sub ELSE lang_walk(data_in, i + 1, sub.v)
             ELSE IF IsDict(p) THEN lang_walk(data_in, i + 1, Update(entries, p.v))
             ELSE Unknown(p, "lang_parts")

\* entries is the dict the caller passes, or {} when it passes none
lang_parts(data_in, entries) ==
    IF IsSequenceType(data_in) THEN lang_walk(Items(data_in), 0, entries)
    ELSE IF IsDict(data_in)
    THEN IF DOMAIN data_in.v = {} THEN Dict(entries)
         ELSE Raise("KeyError", "0", "lang_parts")
    ELSE Raise("TypeError", "object has no len()", "lang_parts")

---------------------------------------------------------------------------
(* Loot tables *)

\* mutant of loot_default_conditions: every kind of pool gets the condition
loot_default_conditions_always(loot_type) ==
    List(<<Dict([condition |-> Str("minecraft:survives_explosion")])>>)

loot_default_conditions(loot_type) ==
    IF loot_type = Str("block")
    THEN List(<<Dict([condition |-> Str("minecraft:survives_explosion")])>>)
    ELSE None

loot_condition_list(data_in) ==
    IF IsStr(data_in) THEN List(<<Dict([condition |-> data_in])>>)
    ELSE IF IsSequenceType(data_in)
    THEN LET parts == [i \in 1..Len(Items(data_in)) |-> loot_condition_list(Items(data_in)[i])]
         IN  IF HasErr(parts) THEN FirstErr(parts) ELSE List(flatten_list(parts))
    ELSE IF IsDict(data_in) THEN List(<<data_in>>)
    ELSE Unknown(data_in, "loot_condition_list")

loot_function_list(data_in) ==
    IF IsStr(data_in) THEN List(<<Dict([function |-> data_in])>>)
    ELSE IF IsSequenceType(data_in)
    THEN LET parts == [i \in 1..Len(Items(data_in)) |-> loot_function_list(Items(data_in)[i])]
         IN  IF HasErr(parts) THEN FirstErr(parts) ELSE List(flatten_list(parts))
    ELSE IF IsDict(data_in) THEN List(<<data_in>>)
    ELSE Unknown(data_in, "loot_function_list")

loot_entry_list(data_in) ==
    IF IsStr(data_in)
    THEN IF HasTagMarker(data_in.v)
         THEN List(<<Dict([type |-> Str("minecraft:tag"), name |-> Str(AfterTagMarker(data_in.v))])>>)
         ELSE List(<<Dict([type |-> Str("minecraft:item"), name |-> data_in])>>)
    ELSE IF IsSequenceType(data_in)
    THEN LET parts == [i \in 1..Len(Items(data_in)) |-> loot_entry_list(Items(data_in)[i])]
         IN  IF HasErr(parts) THEN FirstErr(parts) ELSE List(flatten_list(parts))
    ELSE IF IsDict(data_in)
    THEN LET entry ==
                 Display([type |-> dict_get(data_in, "type", Str("item"), "None"),
                          conditions |-> dict_get(data_in, "conditions", None, "loot_condition_list"),
                          name |-> dict_get(data_in, "name", None, "None"),
                          children |-> dict_get(data_in, "children", None, "None"),
                          expand |-> dict_get(data_in, "expand", None, "None"),
                          functions |-> dict_get(data_in, "functions", None, "loot_function_list"),
                          weight |-> dict_get(data_in, "weight", None, "None"),
                          quality |-> dict_get(data_in, "quality", None, "None")],
                         <<"type", "conditions", "name", "children", "expand", "functions",
                           "weight", "quality">>)
         IN  IF IsErr(entry) THEN entry ELSE List(<<entry>>)
    ELSE Unknown(data_in, "loot_entry_list")

RECURSIVE loot_pool_list(_, _)
loot_pool_list(data_in, loot_type) ==
    IF IsStr(data_in)
    THEN List(<<Dict([name |-> Str("loot_pool"),
                      rolls |-> Num(1),
                      entries |-> loot_entry_list(data_in),
                      conditions |-> loot_default_conditions(loot_type)])>>)
    ELSE IF IsDict(data_in)
    THEN LET pool ==
                 Display([name |-> Str("loot_pool"),
                          rolls |-> dict_get(data_in, "rolls", Num(1), "None"),
                          bonus_rolls |-> dict_get(data_in, "bonus_rolls", None, "None"),
                          entries |-> dict_get(data_in, "entries", data_in, "loot_entry_list"),
                          conditions |-> dict_get(data_in, "conditions",
                                                  loot_default_conditions(loot_type),
                                                  "loot_condition_list"),
                          functions |-> dict_get(data_in, "functions", None, "loot_function_list")],
                         <<"name", "rolls", "bonus_rolls", "entries", "conditions", "functions">>)
         IN  IF IsErr(pool) THEN pool ELSE List(<<pool>>)
    ELSE IF IsSequenceType(data_in)
    THEN LET parts == [i \in 1..Len(Items(data_in)) |-> loot_pool_list(Items(data_in)[i], loot_type)]
         IN  IF HasErr(parts) THEN FirstErr(parts) ELSE List(flatten_list(parts))
    ELSE Unknown(data_in, "loot_pool_list")

---------------------------------------------------------------------------
(* The null-stripping pass of write() *)

NotNone(x) == x # None

\* mutant of del_none: the elements of a sequence are kept as they are
del_none_shallow(data_in) ==
    IF IsDict(data_in)
    THEN Dict([key \in {k \in DOMAIN data_in.v : data_in.v[k] # None} |-> data_in.v[key]])
    ELSE IF is_sequence(data_in) THEN List(SelectSeq(Items(data_in), NotNone))
    ELSE IF data_in # None THEN data_in
    ELSE Raise("ValueError", "None passed to del_none, should not be possible.", "del_none")

RECURSIVE del_none(_)
del_none(data_in) ==
    IF IsDict(data_in)
    THEN Dict([key \in {k \in DOMAIN data_in.v : data_in.v[k] # None} |-> del_none(data_in.v[key])])
    ELSE IF is_sequence(data_in)
    THEN LET kept == SelectSeq(Items(data_in), NotNone)
         IN  List([i \in 1..Len(kept) |-> del_none(kept[i])])
    ELSE IF data_in # None THEN data_in
    ELSE Raise("ValueError", "None passed to del_none, should not be possible.", "del_none")

---------------------------------------------------------------------------
(* Standard blockstates *)

\* a dict display {k1: v1, k2: v2, ...} with literal keys, given as its
\* <<key, value>> items in source order: a key written twice keeps the last value
DictLiteral(items) ==
    LET last(k) == CHOOSE i \in 1..Len(items) :
                       items[i][1] = k /\ \A j \in (i + 1)..Len(items) : items[j][1] # k
    IN  Dict([k \in {items[i][1] : i \in 1..Len(items)} |-> items[last(k)][2]])

\* the items of the dict display stairs_variants returns, in source order
stairs_items(stairs, stairs_inner, stairs_outer) ==
    <<
        <<"facing=east,half=bottom,shape=straight",
            Dict([model |-> stairs])>>,
        <<"facing=west,half=bottom,shape=straight",
            Dict([model |-> stairs, y |-> Num(180), uvlock |-> True])>>,
        <<"facing=south,half=bottom,shape=straight",
            Dict([model |-> stairs, y |-> Num(90), uvlock |-> True])>>,
        <<"facing=north,half=bottom,shape=straight",
            Dict([model |-> stairs, y |-> Num(270), uvlock |-> True])>>,
        <<"facing=east,half=bottom,shape=outer_right",
            Dict([model |-> stairs_outer])>>,
        <<"facing=west,half=bottom,shape=outer_right",
            Dict([model |-> stairs_outer, y |-> Num(180), uvlock |-> True])>>,
        <<"facing=south,half=bottom,shape=outer_right",
            Dict([model |-> stairs_outer, y |-> Num(90), uvlock |-> True])>>,
        <<"facing=north,half=bottom,shape=outer_right",
            Dict([model |-> stairs_outer, y |-> Num(270), uvlock |-> True])>>,
        <<"facing=east,half=bottom,shape=outer_left",
            Dict([model |-> stairs_outer, y |-> Num(270), uvlock |-> True])>>,
        <<"facing=west,half=bottom,shape=outer_left",
            Dict([model |-> stairs_outer, y |-> Num(90), uvlock |-> True])>>,
        <<"facing=south,half=bottom,shape=outer_left",
            Dict([model |-> stairs_outer])>>,
        <<"facing=north,half=bottom,shape=outer_left",
            Dict([model |-> stairs_outer, y |-> Num(180), uvlock |-> True])>>,
        <<"facing=east,half=bottom,shape=inner_right",
            Dict([model |-> stairs_inner])>>,
        <<"facing=west,half=bottom,shape=inner_right",
            Dict([model |-> stairs_inner, y |-> Num(180), uvlock |-> True])>>,
        <<"facing=south,half=bottom,shape=inner_right",
            Dict([model |-> stairs_inner, y |-> Num(90), uvlock |-> True])>>,
        <<"facing=north,half=bottom,shape=inner_right",
            Dict([model |-> stairs_inner, y |-> Num(270), uvlock |-> True])>>,
        <<"facing=east,half=bottom,shape=inner_left",
            Dict([model |-> stairs_inner, y |-> Num(270), uvlock |-> True])>>,
        <<"facing=west,half=bottom,shape=inner_left",
            Dict([model |-> stairs_inner, y |-> Num(90), uvlock |-> True])>>,
        <<"facing=south,half=bottom,shape=inner_left",
            Dict([model |-> stairs_inner])>>,
        <<"facing=north,half=bottom,shape=inner_left",
            Dict([model |-> stairs_inner, y |-> Num(180), uvlock |-> True])>>,
        <<"facing=east,half=top,shape=straight",
            Dict([model |-> stairs, x |-> Num(180), uvlock |-> True])>>,
        <<"facing=west,half=top,shape=straight",
            Dict([model |-> stairs, x |-> Num(180), y |-> Num(180), uvlock |-> True])>>,
        <<"facing=south,half=top,shape=straight",
            Dict([model |-> stairs, x |-> Num(180), y |-> Num(90), uvlock |-> True])>>,
        <<"facing=north,half=top,shape=straight",
            Dict([model |-> stairs, x |-> Num(180), y |-> Num(270), uvlock |-> True])>>,
        <<"facing=east,half=top,shape=outer_right",
            Dict([model |-> stairs_outer, x |-> Num(180), y |-> Num(90), uvlock |-> True])>>,
        <<"facing=west,half=top,shape=outer_right",
            Dict([model |-> stairs_outer, x |-> Num(180), y |-> Num(270), uvlock |-> True])>>,
        <<"facing=south,half=top,shape=outer_right",
            Dict([model |-> stairs_outer, x |-> Num(180), y |-> Num(180), uvlock |-> True])>>,
        <<"facing=north,half=top,shape=outer_right",
            Dict([model |-> stairs_outer, x |-> Num(180), uvlock |-> True])>>,
        <<"facing=east,half=top,shape=outer_left",
            Dict([model |-> stairs_outer, x |-> Num(180), uvlock |-> True])>>,
        <<"facing=west,half=top,shape=outer_left",
            Dict([model |-> stairs_outer, x |-> Num(180), y |-> Num(180), uvlock |-> True])>>,
        <<"facing=south,half=top,shape=outer_left",
            Dict([model |-> stairs_outer, x |-> Num(180), y |-> Num(90), uvlock |-> True])>>,
        <<"facing=north,half=top,shape=outer_left",
            Dict([model |-> stairs_outer, x |-> Num(180), y |-> Num(270), uvlock |-> True])>>,
        <<"facing=east,half=top,shape=inner_right",
            Dict([model |-> stairs_inner, x |-> Num(180), y |-> Num(90), uvlock |-> True])>>,
        <<"facing=west,half=top,shape=inner_right",
            Dict([model |-> stairs_inner, x |-> Num(180), y |-> Num(270), uvlock |-> True])>>,
        <<"facing=south,half=top,shape=inner_right",
            Dict([model |-> stairs_inner, x |-> Num(180), y |-> Num(180), uvlock |-> True])>>,
        <<"facing=north,half=top,shape=inner_right",
            Dict([model |-> stairs_inner, x |-> Num(180), uvlock |-> True])>>,
        <<"facing=east,half=top,shape=inner_left",
            Dict([model |-> stairs_inner, x |-> Num(180), uvlock |-> True])>>,
        <<"facing=west,half=top,shape=inner_left",
            Dict([model |-> stairs_inner, x |-> Num(180), y |-> Num(180), uvlock |-> True])>>,
        <<"facing=south,half=top,shape=inner_left",
            Dict([model |-> stairs_inner, x |-> Num(180), y |-> Num(90), uvlock |-> True])>>,
        <<"facing=north,half=top,shape=inner_left",
            Dict([model |-> stairs_inner, x |-> Num(180), y |-> Num(270), uvlock |-> True])>>
    >>

\* mutant of stairs_variants: the last key of the table is written as the first
stairs_variants_dup(stairs, stairs_inner, stairs_outer) ==
    DictLiteral([stairs_items(stairs, stairs_inner, stairs_outer)
                     EXCEPT ![40][1] = "facing=east,half=bottom,shape=straight"])

stairs_variants(stairs, stairs_inner, stairs_outer) ==
    DictLiteral(stairs_items(stairs, stairs_inner, stairs_outer))

fence_multipart(fence_post, fence_side) ==
    List(<<
        Dict([model |-> fence_post]),
        List(<<Dict([north |-> Str("true")]), Dict([model |-> fence_side, uvlock |-> True])>>),
        List(<<Dict([east |-> Str("true")]), Dict([model |-> fence_side, y |-> Num(90), uvlock |-> True])>>),
        List(<<Dict([south |-> Str("true")]), Dict([model |-> fence_side, y |-> Num(180), uvlock |-> True])>>),
        List(<<Dict([west |-> Str("true")]), Dict([model |-> fence_side, y |-> Num(270), uvlock |-> True])>>)
    >>)

\* mutant of wall_multipart: the post is a bare mapping, as in fence_multipart
wall_multipart_bare_post(wall_post, wall_side) ==
    fence_multipart(wall_post, wall_side)

wall_multipart(wall_post, wall_side) ==
    List(<<
        List(<<Dict([up |-> Str("true")]), Dict([model |-> wall_post])>>),
        List(<<Dict([north |-> Str("true")]), Dict([model |-> wall_side, uvlock |-> True])>>),
        List(<<Dict([east |-> Str("true")]), Dict([model |-> wall_side, y |-> Num(90), uvlock |-> True])>>),
        List(<<Dict([south |-> Str("true")]), Dict([model |-> wall_side, y |-> Num(180), uvlock |-> True])>>),
        List(<<Dict([west |-> Str("true")]), Dict([model |-> wall_side, y |-> Num(270), uvlock |-> True])>>)
    >>)

---------------------------------------------------------------------------
(* Inputs *)

\* longest top-level sequence passed to a function
MaxLen == 2
\* longest flat key/value sequence passed to lang_parts
MaxLang == 4

SeqsUpTo(S, n) == UNION {[1..k -> S] : k \in 0..n}

\* resource_location: path strings with and without ':' and '/', sequences of
\* them, nested sequences, built identifiers, and values of no accepted shape
PathStrs == {"", "a", "b/c", "a:b", ":b", "a:", "a:b:c", "x/y:z"}
PathLists == {List(<<>>), List(<<Str("x")>>), List(<<Str("a"), Str("b:c")>>)}
PathElems == {Str(s) : s \in PathStrs} \cup PathLists
Locations == {ResourceLocation(Str("foo"), Str("bar/baz")), ResourceLocation(Str("a"), Str("b"))}
PathInputs ==
    PathElems \cup {List(q) : q \in SeqsUpTo(PathElems, MaxLen)} \cup Locations
        \cup {Num(2), None, List(<<Str("a"), Num(2)>>)}
NoArg == [t |-> "noarg"]
Domains == {Str("foo"), Str("")}

\* the dialect normalizers: strings, numbers, None, mappings, (count, item)
\* pairs, deeper nestings, and sequences of all of these
JsonDicts ==
    {EmptyDict,
     Dict([item |-> Str("a"), count |-> Num(7)]),
     Dict([type |-> Str("minecraft:item"), name |-> Str("a"), weight |-> Num(2)]),
     Dict([name |-> Str("a"), conditions |-> Str("c"), functions |-> List(<<Str("f")>>)]),
     Dict([conditions |-> Num(5)]),
     Dict([rolls |-> Num(2), bonus_rolls |-> Num(1), entries |-> Str("tag!b"),
           conditions |-> Str("c"), functions |-> Str("f")])}
JsonPairs ==
    {List(<<Num(2), Str("minecraft:stick")>>),
     List(<<Num(3), Dict([item |-> Str("a"), count |-> Num(7)])>>),
     List(<<Num(3), List(<<Num(2), Str("a")>>)>>)}
JsonDeep == {List(<<Str("a"), List(<<Str("b"), List(<<EmptyDict>>), Str("c")>>)>>)}
JsonElems == {Str("a"), Str("tag!b"), Num(2), None} \cup JsonDicts \cup JsonPairs \cup JsonDeep
\* values passed on their own only: strings around the 'tag!' marker, more
\* mappings and pairs, sequences of other lengths
JsonAlone ==
    {Str(""), Str("tag"), Str("tag!"), Str("tag!!"), Str("xtag!b"), Str("minecraft:dirt"),
     Str("tag!forge:ingots/copper"),
     Dict([item |-> Str("a")]),
     Dict([rolls |-> Num(2), entries |-> Str("a")]),
     List(<<Num(3), Str("tag!b")>>),
     List(<<Num(3), Num(5)>>),
     List(<<Str("a"), Str("b"), Str("c")>>),
     List(<<List(<<>>)>>)}
JsonInputs == JsonElems \cup JsonAlone \cup {List(q) : q \in SeqsUpTo(JsonElems, MaxLen)}

\* lang_parts: keys, values, nested key/value sequences, mappings, a number
LangElems ==
    {Str("k"), Str("j"), Str("v"), Num(1),
     List(<<Str("k"), Str("w")>>),
     Dict([k |-> Str("u"), m |-> Str("x")])}
LangInputs == {List(q) : q \in SeqsUpTo(LangElems, MaxLang)}

LootTypes == {Str("block"), Str("entity")}

\* the standard blockstates: the tuple of model paths passed, three to
\* stairs_variants and two to fence_multipart and wall_multipart
ModelPaths == {Str("block/oak"), Str("block/oak_inner"), Str("mod:block/oak_outer"), Str("block/post")}
StairsInputs == {List(<<p, q, r>>) : p, q, r \in ModelPaths}
PostSideInputs == {List(<<p, q>>) : p, q \in ModelPaths}

Inputs == PathInputs \cup JsonInputs \cup LangInputs \cup StairsInputs \cup PostSideInputs

\* the functions whose result is a document handed to write()
Normalizers ==
    {"recipe_condition", "item_stack", "item_stack_list", "item_stack_dict",
     "blockstate_multipart_parts", "lang_parts", "loot_pool_list", "loot_entry_list",
     "loot_function_list", "loot_condition_list"}

---------------------------------------------------------------------------
(* The state machine *)

Unset == [t |-> "unset"]

Init ==
    /\ pc = "ready"
    /\ fn = "none"
    /\ input \in Inputs
    /\ opt = NoArg
    /\ result = Unset
    /\ stripped = Unset
    /\ multipart = Unset

\* the call name(input) or name(input, extra) returns, or raises, r
Call(name, extra, r) ==
    /\ pc = "ready"
    /\ pc' = "called"
    /\ fn' = name
    /\ opt' = extra
    /\ result' = r
    /\ UNCHANGED <<input, stripped, multipart>>

CallResourceLocation ==
    /\ input \in PathInputs
    /\ \/ Call("resource_location", NoArg, resource_location(<<input>>))
       \/ \E d \in Domains : Call("resource_location", d, resource_location(<<d, input>>))

CallRecipeCondition ==
    /\ input \in JsonInputs
    /\ Call("recipe_condition", NoArg, recipe_condition(input, FALSE))

CallItemStack ==
    /\ input \in JsonInputs
    /\ Call("item_stack", NoArg, item_stack(input))

CallItemStackList ==
    /\ input \in JsonInputs
    /\ Call("item_stack_list", NoArg, item_stack_list(input))

CallItemStackDict ==
    /\ input \in JsonInputs
    /\ Call("item_stack_dict", NoArg, item_stack_dict(input, "#"))

CallBlockstateMultipartParts ==
    /\ input \in JsonInputs
    /\ Call("blockstate_multipart_parts", NoArg, blockstate_multipart_parts(input))

CallLangParts ==
    /\ input \in JsonInputs \cup LangInputs
    /\ Call("lang_parts", NoArg, lang_parts(input, <<>>))

CallLootPoolList ==
    /\ input \in JsonInputs
    /\ \E loot_type \in LootTypes :
           Call("loot_pool_list", loot_type, loot_pool_list(input, loot_type))

CallLootEntryList ==
    /\ input \in JsonInputs
    /\ Call("loot_entry_list", NoArg, loot_entry_list(input))

CallLootFunctionList ==
    /\ input \in JsonInputs
    /\ Call("loot_function_list", NoArg, loot_function_list(input))

CallLootConditionList ==
    /\ input \in JsonInputs
    /\ Call("loot_condition_list", NoArg, loot_condition_list(input))

\* write(): data = del_none({...}) on the document a normalizer returned
Strip ==
    /\ pc = "called"
    /\ fn \in Normalizers
    /\ ~IsErr(result)
    /\ pc' = "stripped"
    /\ stripped' = del_none(result)
    /\ UNCHANGED <<fn, input, opt, result, multipart>>

CallStairsVariants ==
    /\ input \in StairsInputs
    /\ Call("stairs_variants", NoArg, stairs_variants(input.v[1], input.v[2], input.v[3]))

CallFenceMultipart ==
    /\ input \in PostSideInputs
    /\ Call("fence_multipart", NoArg, fence_multipart(input.v[1], input.v[2]))

CallWallMultipart ==
    /\ input \in PostSideInputs
    /\ Call("wall_multipart", NoArg, wall_multipart(input.v[1], input.v[2]))

\* the parts list a fence or wall table returned, passed through
\* blockstate_multipart_parts
NormalizeParts ==
    /\ pc = "called"
    /\ fn \in {"fence_multipart", "wall_multipart"}
    /\ pc' = "normalized"
    /\ multipart' = blockstate_multipart_parts(result)
    /\ UNCHANGED <<fn, input, opt, result, stripped>>

Next ==
    \/ CallResourceLocation
    \/ CallRecipeCondition
    \/ CallItemStack
    \/ CallItemStackList
    \/ CallItemStackDict
    \/ CallBlockstateMultipartParts
    \/ CallLangParts
    \/ CallLootPoolList
    \/ CallLootEntryList
    \/ CallLootFunctionList
    \/ CallLootConditionList
    \/ Strip
    \/ CallStairsVariants
    \/ CallFenceMultipart
    \/ CallWallMultipart
    \/ NormalizeParts

Spec == Init /\ [][Next]_vars

---------------------------------------------------------------------------
(* Properties *)

Called(name) == pc # "ready" /\ fn = name

\* the suffixes of a string, the empty one included
Suffixes(s) == {SubSeq(s, i, Len(s)) : i \in 1..(Len(s) + 1)}
\* s is the marker 'tag!' followed by rest
Marked(s, rest) == s = "tag!" \o rest
IsMarked(s) == \E rest \in Suffixes(s) : Marked(s, rest)

\* a string, or a (possibly nested) sequence of strings
RECURSIVE IsPathSpec(_)
IsPathSpec(x) ==
    \/ IsStr(x)
    \/ x.t = "seq" /\ \A i \in 1..Len(x.v) : IsPathSpec(x.v[i])

\* the strings of a path specification, left to right
RECURSIVE Segments(_)
Segments(x) ==
    IF IsStr(x) THEN <<x.v>>
    ELSE IF x.v = <<>> THEN <<>>
    ELSE Segments(Head(x.v)) \o Segments(List(Tail(x.v)))

\* text contains c at position i and nowhere before it
FirstAt(text, c, i) ==
    /\ SubSeq(text, i, i) = c
    /\ \A j \in 1..(i - 1) : SubSeq(text, j, j) # c

\* C1: for a string or nested sequence of strings and an optional default
\* domain d, resource_location returns (text before the first ':', text after
\* it) of the '/'-joined segments when the joined text holds a ':', whatever d
\* is, and (d, joined text) otherwise, d being 'minecraft' when not given.
C1_ResourceLocationResolution ==
    (Called("resource_location") /\ IsPathSpec(input)) =>
        LET text == Join(Segments(input), "/")
            d == IF opt = NoArg THEN Str("minecraft") ELSE opt
        IN  /\ result.t = "loc"
            /\ \A i \in 1..Len(text) :
                   FirstAt(text, ":", i) =>
                       /\ result.domain = Str(SubSeq(text, 1, i - 1))
                       /\ result.path = Str(SubSeq(text, i + 1, Len(text)))
            /\ (\A i \in 1..Len(text) : SubSeq(text, i, i) # ":") =>
                   /\ result.domain = d
                   /\ result.path = Str(text)

\* a ':' in the second segment of a sequence overrides the supplied domain
C1_Witness ==
    /\ Called("resource_location")
    /\ input = List(<<Str("b/c"), Str("a:b:c")>>)
    /\ opt = Str("foo")
    /\ result = ResourceLocation(Str("b/c/a"), Str("b:c"))

\* C2: item_stack normalizes by shape: 'tag!rest' yields {tag: rest}, any
\* other string s yields {item: s}, a 2-element sequence (c, n) yields the
\* normalized mapping of n with key 'count' set to c, and a sequence of any
\* other length raises the arity error.
C2_ItemStackByShape ==
    Called("item_stack") =>
        /\ IsStr(input) =>
               /\ \A rest \in Suffixes(input.v) :
                      Marked(input.v, rest) => result = Dict([tag |-> Str(rest)])
               /\ ~IsMarked(input.v) => result = Dict([item |-> input])
        /\ (input.t = "seq" /\ Len(input.v) = 2 /\ input.v[1].t = "num"
                /\ ~IsErr(item_stack(input.v[2]))) =>
               /\ IsDict(result)
               /\ result.v = Put(item_stack(input.v[2]).v, "count", input.v[1])
        /\ (input.t = "seq" /\ Len(input.v) # 2) =>
               /\ IsErr(result)
               /\ result.msg = "An item stack as a sequence must have two entries (size, item)"

\* a 2-element sequence whose first element is a number and whose second is
\* an item string
IsCountedItem(x) ==
    /\ x.t = "seq"
    /\ Len(x.v) = 2
    /\ x.v[1].t = "num"
    /\ IsStr(x.v[2])
    /\ ~IsMarked(x.v[2].v)

\* C3 as stated: item_stack_list of (count, item) returns the one stack with
\* its count and does not raise.
C3_CountedItemIsOneStack ==
    (Called("item_stack_list") /\ IsCountedItem(input)) =>
        result = List(<<Dict([count |-> input.v[1], item |-> input.v[2]])>>)

\* C3, amended: item_stack_list normalizes every element of a sequence as a
\* stack of its own, so (count, item) passed bare raises the unrecognized-input
\* error for the count at item_stack, and the pair wrapped in a one-element
\* sequence returns the one stack with its count.
C3_CountedItemMustBeWrapped ==
    Called("item_stack_list") =>
        /\ IsCountedItem(input) => result = Unknown(input.v[1], "item_stack")
        /\ (input.t = "seq" /\ Len(input.v) = 1 /\ IsCountedItem(input.v[1])) =>
               result = List(<<Dict([count |-> input.v[1].v[1], item |-> input.v[1].v[2]])>>)

C3_Witness ==
    /\ Called("item_stack_list")
    /\ input = List(<<List(<<Num(2), Str("minecraft:stick")>>)>>)
    /\ result = List(<<Dict([count |-> Num(2), item |-> Str("minecraft:stick")])>>)

\* C4: for a string s and pool kind k, loot_pool_list returns one pool with
\* rolls 1 and one entry, a minecraft:tag entry named by s without its 'tag!'
\* marker or a minecraft:item entry named s; the pool's conditions are exactly
\* the survives_explosion condition when k is 'block', and no condition at all
\* for any other k.
C4_StringPool ==
    (Called("loot_pool_list") /\ IsStr(input)) =>
        /\ result.t = "seq"
        /\ Len(result.v) = 1
        /\ IsDict(result.v[1])
        /\ LET pool == result.v[1].v
           IN  /\ pool.rolls = Num(1)
               /\ \A rest \in Suffixes(input.v) :
                      Marked(input.v, rest) =>
                          pool.entries = List(<<Dict([type |-> Str("minecraft:tag"),
                                                      name |-> Str(rest)])>>)
               /\ ~IsMarked(input.v) =>
                      pool.entries = List(<<Dict([type |-> Str("minecraft:item"),
                                                  name |-> input])>>)
               /\ opt = Str("block") =>
                      pool.conditions =
                          List(<<Dict([condition |-> Str("minecraft:survives_explosion")])>>)
               /\ opt # Str("block") => pool.conditions = None

C4_Witness ==
    /\ Called("loot_pool_list")
    /\ input = Str("tag!forge:ingots/copper")
    /\ opt = Str("entity")
    /\ result.v[1].v.entries =
           List(<<Dict([type |-> Str("minecraft:tag"), name |-> Str("forge:ingots/copper")])>>)
    /\ result.v[1].v.conditions = None

\* lang_parts walks q to its end without raising: every position holds a key
\* followed by a value, a sequence that can itself be walked, or a mapping
RECURSIVE Walkable(_)
Walkable(q) ==
    \/ q = <<>>
    \/ IsStr(Head(q)) /\ Len(q) >= 2 /\ Walkable(Tail(Tail(q)))
    \/ Head(q).t = "seq" /\ Walkable(Head(q).v) /\ Walkable(Tail(q))
    \/ IsDict(Head(q)) /\ Walkable(Tail(q))

\* the pairs of a mapping, one write each (its keys are distinct, so any order)
RECURSIVE DictWrites(_, _)
DictWrites(d, keys) ==
    IF keys = {} THEN <<>>
    ELSE LET k == CHOOSE x \in keys : TRUE
         IN  <<[key |-> k, value |-> d[k]]>> \o DictWrites(d, keys \ {k})

\* the writes of a walk of q, in order: a key with the element after it, the
\* writes of a nested sequence, the pairs of a mapping
RECURSIVE Writes(_)
Writes(q) ==
    IF q = <<>> THEN <<>>
    ELSE IF IsStr(Head(q))
    THEN <<[key |-> Head(q).v, value |-> q[2]]>> \o Writes(Tail(Tail(q)))
    ELSE IF Head(q).t = "seq" THEN Writes(Head(q).v) \o Writes(Tail(q))
    ELSE DictWrites(Head(q).v, DOMAIN Head(q).v) \o Writes(Tail(q))

\* C5: lang_parts walks its input by position, left to right, consuming every
\* position once: a string is a key whose value is the next element (both
\* consumed as one pair), a sequence is merged recursively, a mapping is
\* merged as it is; the returned mapping holds, for each key, the value of
\* the last pair or merge that set it.
C5_LangPartsLastWriteWins ==
    (Called("lang_parts") /\ input.t = "seq" /\ Walkable(input.v)) =>
        LET w == Writes(input.v)
        IN  /\ IsDict(result)
            /\ DOMAIN result.v = {w[i].key : i \in 1..Len(w)}
            /\ \A i \in 1..Len(w) :
                   (\A j \in (i + 1)..Len(w) : w[j].key # w[i].key) =>
                       result.v[w[i].key] = w[i].value

\* a nested pair, then a mapping, then a pair whose value is a string that is
\* elsewhere a key: the last write of k wins and j is never taken as a key
C5_Witness ==
    /\ Called("lang_parts")
    /\ input = List(<<List(<<Str("k"), Str("w")>>),
                      Dict([k |-> Str("u"), m |-> Str("x")]),
                      Str("k"), Str("j")>>)
    /\ result = Dict([k |-> Str("j"), m |-> Str("x")])

\* the elements of a nested sequence that are not sequences, left to right
RECURSIVE Leaves(_)
Leaves(q) ==
    IF q = <<>> THEN <<>>
    ELSE (IF Head(q).t = "seq" THEN Leaves(Head(q).v) ELSE <<Head(q)>>) \o Leaves(Tail(q))

IsStrOrDict(x) == IsStr(x) \/ IsDict(x)

\* what a list normalizer makes of one string or mapping
OneCondition(x) == IF IsStr(x) THEN Dict([condition |-> x]) ELSE x
OneFunction(x) == IF IsStr(x) THEN Dict([function |-> x]) ELSE x
OneRecipeCondition(x) == IF IsStr(x) THEN Dict([type |-> x]) ELSE x

\* C6: recipe_condition flattens one level only: a sequence of strings and
\* mappings becomes, in order, {type: s} per string and each mapping
\* unchanged, and a sequence with a sequence among its elements raises the
\* unrecognized-input error; the loot entry, function and condition
\* normalizers take such nested input and flatten it to any depth.
C6_RecipeConditionOneLevel ==
    /\ (Called("recipe_condition") /\ input.t = "seq") =>
           /\ (\A i \in 1..Len(input.v) : IsStrOrDict(input.v[i])) =>
                  result = List([i \in 1..Len(input.v) |-> OneRecipeCondition(input.v[i])])
           /\ (\E i \in 1..Len(input.v) : input.v[i].t = "seq") =>
                  /\ IsErr(result)
                  /\ result.kind = "RuntimeError"
                  /\ result.msg = "Unknown object"
                  /\ result.at = "recipe_condition"
    /\ (input.t = "seq" /\ \A i \in 1..Len(Leaves(input.v)) : IsStrOrDict(Leaves(input.v)[i])) =>
           LET leaves == Leaves(input.v)
           IN  /\ Called("loot_condition_list") =>
                      result = List([i \in 1..Len(leaves) |-> OneCondition(leaves[i])])
               /\ Called("loot_function_list") =>
                      result = List([i \in 1..Len(leaves) |-> OneFunction(leaves[i])])
               /\ (Called("loot_entry_list")
                       /\ \A i \in 1..Len(leaves) : ~IsErr(loot_entry_list(leaves[i]))) =>
                      result = List([i \in 1..Len(leaves) |-> loot_entry_list(leaves[i]).v[1]])

\* a sequence nested three deep is rejected by recipe_condition
C6_Witness ==
    /\ Called("recipe_condition")
    /\ input = List(<<Str("a"), List(<<Str("b"), List(<<EmptyDict>>), Str("c")>>)>>)
    /\ result = Unknown(List(<<Str("b"), List(<<EmptyDict>>), Str("c")>>), "recipe_condition")

\* a shape no normalizer lists among its forms: a number, the absent marker
\* (which recipe_condition alone accepts), or, for lang_parts, a sequence
\* that is one key with no value after it
UnacceptedShape(name, x) ==
    \/ x.t = "num"
    \/ x = None /\ name # "recipe_condition"
    \/ name = "lang_parts" /\ x.t = "seq" /\ Len(x.v) = 1 /\ IsStr(x.v[1])

\* the error names normalizer name ("name", or "name#part" for its inner part)
NamesNormalizer(at, name) == at = name \/ at = name \o "#part"

\* C7: every dialect normalizer, given an input whose shape is none of the
\* forms it accepts, raises the unrecognized-input error that names the value
\* and the normalizer; it returns no result and raises no other error.
C7_UnrecognizedShapeError ==
    (pc # "ready" /\ fn \in Normalizers /\ UnacceptedShape(fn, input)) =>
        /\ IsErr(result)
        /\ result.kind = "RuntimeError"
        /\ result.msg = "Unknown object"
        /\ NamesNormalizer(result.at, fn)

RECURSIVE ContainsNone(_)
ContainsNone(x) ==
    \/ x = None
    \/ IsDict(x) /\ \E k \in DOMAIN x.v : ContainsNone(x.v[k])
    \/ x.t = "seq" /\ \E i \in 1..Len(x.v) : ContainsNone(x.v[i])

\* the optional fields of a pool mapping and of an entry mapping
OptionalFields(name) ==
    IF name = "loot_pool_list" THEN {"bonus_rolls", "functions", "conditions"}
    ELSE {"conditions", "name", "children", "expand", "functions", "weight", "quality"}

MappingNormalized ==
    /\ pc # "ready"
    /\ fn \in {"loot_pool_list", "loot_entry_list"}
    /\ IsDict(input)
    /\ ~IsErr(result)

\* C8 as stated: before any null-stripping pass the returned document holds
\* no None, and has no key for an optional field the input mapping omits.
C8_NoPlaceholderBeforeStripping ==
    MappingNormalized =>
        /\ ~ContainsNone(result)
        /\ \A k \in OptionalFields(fn) \ DOMAIN input.v : k \notin DOMAIN result.v[1].v

\* the omitted conditions of a block pool are filled with the default
FilledByDefault(k) == fn = "loot_pool_list" /\ k = "conditions" /\ opt = Str("block")

\* C8, amended: the mapping loot_pool_list or loot_entry_list returns holds
\* every optional field the input omits as a key whose value is None (the
\* omitted conditions of a block pool hold the default condition instead);
\* it is the null-stripping pass, del_none, that leaves a document with no
\* None in it and no key for an omitted field.
C8_PlaceholderUntilStripped ==
    MappingNormalized =>
        /\ \A k \in OptionalFields(fn) \ DOMAIN input.v :
               /\ k \in DOMAIN result.v[1].v
               /\ result.v[1].v[k] =
                      (IF FilledByDefault(k) THEN loot_default_conditions(opt) ELSE None)
        /\ pc = "stripped" =>
               /\ ~ContainsNone(stripped)
               /\ \A k \in OptionalFields(fn) \ DOMAIN input.v :
                      k \in DOMAIN stripped.v[1].v <=> FilledByDefault(k)

C8_Witness ==
    /\ pc = "stripped"
    /\ fn = "loot_entry_list"
    /\ input = Dict([type |-> Str("minecraft:item"), name |-> Str("a"), weight |-> Num(2)])
    /\ result.v[1].v.quality = None
    /\ stripped = List(<<input>>)

\* C9: the domain and the path of every identifier resource_location returns
\* are non-empty strings.
C9_DomainAndPathNonEmpty ==
    (Called("resource_location") /\ result.t = "loc") =>
        /\ IsStr(result.domain) /\ result.domain.v # ""
        /\ IsStr(result.path) /\ result.path.v # ""

\* the normalizer that returned result, applied to result
Renormalized ==
    CASE fn = "item_stack" -> item_stack(result)
      [] fn = "item_stack_list" -> item_stack_list(result)
      [] fn = "recipe_condition" -> recipe_condition(result, FALSE)
      [] fn = "loot_condition_list" -> loot_condition_list(result)
      [] fn = "loot_function_list" -> loot_function_list(result)
      [] fn = "loot_entry_list" -> loot_entry_list(result)
      [] fn = "loot_pool_list" -> loot_pool_list(result, opt)

\* C10: each of item_stack, item_stack_list, recipe_condition,
\* loot_condition_list, loot_function_list, loot_entry_list and loot_pool_list
\* is idempotent: applied to its own result it succeeds and returns a
\* structurally equal result.
C10_NormalizersIdempotent ==
    (/\ pc # "ready"
     /\ fn \in {"item_stack", "item_stack_list", "recipe_condition", "loot_condition_list",
                "loot_function_list", "loot_entry_list", "loot_pool_list"}
     /\ ~IsErr(result)) =>
        Renormalized = result

\* the key 'facing=F,half=H,shape=S' of a stairs blockstate
StairsKey(F, H, S) == "facing=" \o F \o ",half=" \o H \o ",shape=" \o S
Facings == {"east", "west", "south", "north"}
Halves == {"bottom", "top"}
Shapes == {"straight", "inner_left", "inner_right", "outer_left", "outer_right"}
StairsKeys == {StairsKey(F, H, S) : F \in Facings, H \in Halves, S \in Shapes}

\* C11: for every three model paths, stairs_variants returns a mapping with
\* exactly 40 keys, and its key set is exactly the set of strings
\* 'facing=F,half=H,shape=S' for F in {east, west, south, north}, H in
\* {bottom, top} and S in {straight, inner_left, inner_right, outer_left,
\* outer_right}: each combination occurs once and no other key occurs.
C11_StairsFortyKeys ==
    Called("stairs_variants") =>
        /\ IsDict(result)
        /\ Cardinality(DOMAIN result.v) = 40
        /\ DOMAIN result.v = StairsKeys
        /\ \A F \in Facings, H \in Halves, S \in Shapes :
               Cardinality({k \in DOMAIN result.v : k = StairsKey(F, H, S)}) = 1
        /\ \A F1, F2 \in Facings, H1, H2 \in Halves, S1, S2 \in Shapes :
               StairsKey(F1, H1, S1) = StairsKey(F2, H2, S2) => <<F1, H1, S1>> = <<F2, H2, S2>>

C11_Witness ==
    /\ pc = "called"
    /\ fn = "stairs_variants"
    /\ input = List(<<Str("block/oak"), Str("block/oak_inner"), Str("mod:block/oak_outer")>>)
    /\ Cardinality(DOMAIN result.v) = 40
    /\ result.v["facing=east,half=bottom,shape=straight"] = Dict([model |-> Str("block/oak")])
    /\ result.v["facing=north,half=top,shape=inner_left"] =
           Dict([model |-> Str("block/oak_inner"), x |-> Num(180), y |-> Num(270), uvlock |-> True])
    /\ result.v["facing=south,half=bottom,shape=outer_left"] =
           Dict([model |-> Str("mod:block/oak_outer")])

\* the side part for direction dir: conditioned on dir being 'true', the side
\* model rotated by y degrees about the vertical axis (no 'y' key for 0), uvlock true
SidePart(dir, side, y) ==
    Dict([when |-> Dict(Put(<<>>, dir, Str("true"))),
          apply |-> IF y = 0 THEN Dict([model |-> side, uvlock |-> True])
                    ELSE Dict([model |-> side, y |-> Num(y), uvlock |-> True])])

\* parts 2..5 are the north, east, south and west side parts of model side
FourSides(parts, side) ==
    /\ parts.t = "seq"
    /\ Len(parts.v) = 5
    /\ parts.v[2] = SidePart("north", side, 0)
    /\ parts.v[3] = SidePart("east", side, 90)
    /\ parts.v[4] = SidePart("south", side, 180)
    /\ parts.v[5] = SidePart("west", side, 270)

\* a part with 'apply' and no 'when' condition
Unconditional(p, post) == p = Dict([apply |-> Dict([model |-> post])])

Normalized(name) == pc = "normalized" /\ fn = name

\* C12 as stated: both fence_multipart and wall_multipart return a list of
\* exactly 5 parts that, once normalized by blockstate_multipart_parts, are one
\* unconditional post model followed by four side parts conditioned on north,
\* east, south and west being 'true', with y rotations absent, 90, 180 and 270
\* and uvlock true on each side part.
C12_UnconditionalPostAndFourSides ==
    (Normalized("fence_multipart") \/ Normalized("wall_multipart")) =>
        /\ result.t = "seq" /\ Len(result.v) = 5
        /\ Unconditional(multipart.v[1], input.v[1])
        /\ FourSides(multipart, input.v[2])

\* C12 amended: the five normalized parts are the post part followed by the
\* four side parts; the fence post is unconditional, and the wall post is
\* conditioned on up being 'true'.
C12_WallPostWhenUp ==
    /\ Normalized("fence_multipart") =>
           /\ result.t = "seq" /\ Len(result.v) = 5
           /\ Unconditional(multipart.v[1], input.v[1])
           /\ FourSides(multipart, input.v[2])
    /\ Normalized("wall_multipart") =>
           /\ result.t = "seq" /\ Len(result.v) = 5
           /\ multipart.v[1] = Dict([when |-> Dict([up |-> Str("true")]),
                                     apply |-> Dict([model |-> input.v[1]])])
           /\ FourSides(multipart, input.v[2])

C12_Witness ==
    /\ Normalized("wall_multipart")
    /\ input = List(<<Str("block/oak"), Str("block/oak_inner")>>)
    /\ Len(multipart.v) = 5
    /\ DOMAIN multipart.v[1].v = {"when", "apply"}
    /\ multipart.v[1].v.when = Dict([up |-> Str("true")])
    /\ multipart.v[4].v.apply.v.y = Num(180)

=============================================================================
